---- MODULE Spec2Model ----
(***************************************************************************)
(* Two M5 devices running src/main.cpp, one in each role, joined by a BLE  *)
(* characteristic: the Dodger writes its barrel to the Shooter (onWrite),  *)
(* the Shooter notifies its barrel back (notifyCallback).  Every global of *)
(* the program is a function of the device that holds it.                  *)
(***************************************************************************)
EXTENDS Integers, Sequences, FiniteSets, TLC

\* ---------------------------------------------------------------- bounds
\* Games a device may start (resetGame runs at most MaxSessions - 1 times
\* after setup).
MaxSessions == 2
\* Messages one direction of the link holds before delivery.
MaxQueue == 2
\* Bytes that follow a notification's payload in the receive buffer and that
\* atoi may read.
MaxOverread == 1

\* ------------------------------------------------------ program constants
MAX_ROUNDS == 5
NUM_BARRELS == 3
screenWidth == 320
buttonWidth == 80
buttonHeight == 50
buttonSpacing == 20
buttonY == 180
button1X == 40
button2X == button1X + buttonWidth + buttonSpacing
button3X == button2X + buttonWidth + buttonSpacing

ROLE_UNDEFINED == "ROLE_UNDEFINED"
ROLE_SHOOTER == "ROLE_SHOOTER"
ROLE_DODGER == "ROLE_DODGER"
Role == {ROLE_UNDEFINED, ROLE_SHOOTER, ROLE_DODGER}

SHOOTER_WAIT_DODGER == "SHOOTER_WAIT_DODGER"
SHOOTER_WAIT_INPUT == "SHOOTER_WAIT_INPUT"
SHOOTER_SHOW_RESULT == "SHOOTER_SHOW_RESULT"
SHOOTER_GAME_OVER == "SHOOTER_GAME_OVER"
ShooterState ==
  {SHOOTER_WAIT_DODGER, SHOOTER_WAIT_INPUT, SHOOTER_SHOW_RESULT, SHOOTER_GAME_OVER}

DODGER_WAIT_INPUT == "DODGER_WAIT_INPUT"
DODGER_WAIT_SHOT == "DODGER_WAIT_SHOT"
DODGER_SHOW_RESULT == "DODGER_SHOW_RESULT"
DODGER_GAME_OVER == "DODGER_GAME_OVER"
DodgerState ==
  {DODGER_WAIT_INPUT, DODGER_WAIT_SHOT, DODGER_SHOW_RESULT, DODGER_GAME_OVER}

\* The two devices of a game: Sh takes the Shooter role in setup, Dg the Dodger.
\* A device whose role is ROLE_UNDEFINED has not left setup(); its peer then
\* talks to some other BLE device.
Sh == "Sh"
Dg == "Dg"
Devices == {Sh, Dg}

\* ------------------------------------------------------------ wire text
\* A payload is a sequence of characters.  NUL is the string terminator.
NUL == "NUL"
Digits == {"0", "1", "2", "3", "4", "5", "6", "7", "8", "9"}
DigitVal ==
  ("0" :> 0) @@ ("1" :> 1) @@ ("2" :> 2) @@ ("3" :> 3) @@ ("4" :> 4) @@
  ("5" :> 5) @@ ("6" :> 6) @@ ("7" :> 7) @@ ("8" :> 8) @@ ("9" :> 9)
DigitChar == <<"0", "1", "2", "3", "4", "5", "6", "7", "8", "9">>

RECURSIVE SkipSpace(_)
SkipSpace(s) ==
  IF s # <<>> /\ Head(s) = " " THEN SkipSpace(Tail(s)) ELSE s

RECURSIVE AtoiDigits(_, _)
AtoiDigits(s, acc) ==
  IF s = <<>> \/ Head(s) \notin Digits
    THEN acc
    ELSE AtoiDigits(Tail(s), acc * 10 + DigitVal[Head(s)])

\* atoi of the C string starting at s: leading blanks, an optional sign, then
\* the digits up to the first character that is not one; 0 when there is none.
atoi(s) ==
  LET t == SkipSpace(s) IN
    IF t = <<>> THEN 0
    ELSE IF Head(t) = "-" THEN 0 - AtoiDigits(Tail(t), 0)
    ELSE IF Head(t) = "+" THEN AtoiDigits(Tail(t), 0)
    ELSE AtoiDigits(t, 0)

RECURSIVE DecimalDigits(_)
DecimalDigits(n) ==
  IF n < 10 THEN <<DigitChar[n + 1]>>
  ELSE Append(DecimalDigits(n \div 10), DigitChar[(n % 10) + 1])

\* sprintf(buf, "%d", n)
sprintf(n) ==
  IF n < 0 THEN <<"-">> \o DecimalDigits(0 - n) ELSE DecimalDigits(n)

\* ------------------------------------------------------------ touch input
\* A touch is a point <<x, y>> of the 320x240 screen.
Touches ==
  { <<80, 205>>, <<120, 180>>, <<180, 205>>, <<280, 205>>,
    <<160, 140>>, <<130, 205>>, <<10, 10>> }

\* The barrel button test of loop(): both edges of the rectangle count.
pointInRect(px, py, rx, ry, rw, rh) ==
  px >= rx /\ px <= rx + rw /\ py >= ry /\ py <= ry + rh

\* The if / else-if chain over the three barrel buttons: the barrel the touch
\* t selects, or the old value of the choice variable when it is on no button.
SelectBarrel(t, old) ==
  IF pointInRect(t[1], t[2], button1X, buttonY, buttonWidth, buttonHeight) THEN 1
  ELSE IF pointInRect(t[1], t[2], button2X, buttonY, buttonWidth, buttonHeight) THEN 2
  ELSE IF pointInRect(t[1], t[2], button3X, buttonY, buttonWidth, buttonHeight) THEN 3
  ELSE old

\* The restart button test of the game-over branches.
OnRestartButton(t) ==
  /\ t[1] > screenWidth \div 2 - 60 /\ t[1] < screenWidth \div 2 + 60
  /\ t[2] > 120 /\ t[2] < 160

\* ---------------------------------------------------------------- state
VARIABLES
  deviceRole,             \* Role of each device, set in setup()
  shooterState,           \* ShooterState of each device
  dodgerState,            \* DodgerState of each device
  roundNumber,
  gameOver,
  roundResultSafe,
  dodgerChoice,
  shooterChoice,
  deviceConnected,        \* BLE server flag (onConnect / onDisconnect)
  dodgerInputReceived,    \* latch set by onWrite
  notificationReceived,   \* latch set by notifyCallback
  receivedShooterChoice,
  pRemoteCharacteristic,  \* TRUE when the pointer is not nullptr
  writes,                 \* Dodger -> Shooter characteristic writes in flight
  notifies,               \* Shooter -> Dodger notifications in flight
  session,                \* history: number of the game each device plays
  onScript,               \* history: every barrel the device accepted in its
                          \* game is the one its script has for that round
  allDiffer,              \* history: in every round the device resolved in its
                          \* game the two barrels it compared differed
  staleLatch,             \* history: the arrived flag of the device is set and
                          \* the message that set it last came before the
                          \* device had finished the exchange that precedes
                          \* its next wait for a message
  sent                    \* history: messages the device has sent in its
                          \* current round

gameVars ==
  <<shooterState, dodgerState, roundNumber, gameOver, roundResultSafe,
    dodgerChoice, shooterChoice>>
latchVars == <<dodgerInputReceived, notificationReceived, receivedShooterChoice>>
linkVars == <<deviceRole, deviceConnected, pRemoteCharacteristic, writes, notifies>>
gameHist == <<session, onScript, allDiffer>>
histVars == <<gameHist, staleLatch, sent>>
vars == <<gameVars, latchVars, linkVars, histVars>>


\* ------------------------------------------------------------ the program
\* Payloads a BLE central other than the Dodger's program may write, and a
\* server other than the Shooter's program may notify.
ForeignPayloads ==
  { <<>>, <<"1">>, <<"2">>, <<"3">>, <<"7">>, <<"x">>, <<"-", "1">> }

\* What atoi may find behind the length bytes of a notification: pData is not
\* a terminated string, so the bytes after the payload are whatever the
\* receive buffer holds.
OverreadBytes == {NUL, "7"}
Overread == [1..MaxOverread -> OverreadBytes]


\* The barrels of the scenario of the specification: the Dodger hides in 2 in
\* every round, the Shooter shoots 1, 3, 2, 1, 1.
Script(role) ==
  IF role = ROLE_DODGER THEN <<2, 2, 2, 2, 2>> ELSE <<1, 3, 2, 1, 1>>

\* The globals as setup() leaves them: resetGame() has been called.
InitGame ==
  /\ shooterState = [d \in Devices |-> SHOOTER_WAIT_DODGER]
  /\ dodgerState = [d \in Devices |-> DODGER_WAIT_INPUT]
  /\ roundNumber = [d \in Devices |-> 1]
  /\ gameOver = [d \in Devices |-> FALSE]
  /\ roundResultSafe = [d \in Devices |-> FALSE]
  /\ dodgerChoice = [d \in Devices |-> 0]
  /\ shooterChoice = [d \in Devices |-> 0]
  /\ dodgerInputReceived = [d \in Devices |-> FALSE]
  /\ notificationReceived = [d \in Devices |-> FALSE]
  /\ receivedShooterChoice = [d \in Devices |-> 0]
  /\ writes = <<>>
  /\ notifies = <<>>
  /\ session = [d \in Devices |-> 1]
  /\ onScript = [d \in Devices |-> TRUE]
  /\ allDiffer = [d \in Devices |-> TRUE]
  /\ staleLatch = [d \in Devices |-> FALSE]
  /\ sent = [d \in Devices |-> 0]

\* One device has left setup() in its role and its peer is any BLE device: a
\* central may or may not be connected to the Shooter, and setupBLE_Client may
\* have returned before it found the characteristic.
Init ==
  /\ InitGame
  /\ \/ /\ deviceRole = (Sh :> ROLE_SHOOTER) @@ (Dg :> ROLE_UNDEFINED)
        /\ \E c \in BOOLEAN : deviceConnected = (Sh :> c) @@ (Dg :> FALSE)
        /\ pRemoteCharacteristic = (Sh :> FALSE) @@ (Dg :> FALSE)
     \/ /\ deviceRole = (Sh :> ROLE_UNDEFINED) @@ (Dg :> ROLE_DODGER)
        /\ deviceConnected = (Sh :> FALSE) @@ (Dg :> FALSE)
        /\ \E c \in BOOLEAN : pRemoteCharacteristic = (Sh :> FALSE) @@ (Dg :> c)

\* Both devices have left setup() and the Dodger is connected to the Shooter.
InitReliable ==
  /\ InitGame
  /\ deviceRole = (Sh :> ROLE_SHOOTER) @@ (Dg :> ROLE_DODGER)
  /\ deviceConnected = (Sh :> TRUE) @@ (Dg :> FALSE)
  /\ pRemoteCharacteristic = (Sh :> FALSE) @@ (Dg :> TRUE)

\* if (a != b) { roundResultSafe = false; gameOver = true; }
\* else        { roundResultSafe = true; }
\* The value roundResultSafe gets from the comparison of the two barrels.
CompareSafe(a, b) == ~(a # b)

\* Mutant of SessionEnds: the round limit is not tested.
SessionEnds_NoLimit(d) == gameOver[d]

\* Mutant of SessionEnds: the round limit is tested with > instead of >=.
SessionEnds_LimitOffByOne(d) ==
  gameOver[d] \/ (roundNumber[d] > MAX_ROUNDS /\ roundResultSafe[d])

\* The test of the two SHOW_RESULT branches.
SessionEnds(d) ==
  gameOver[d] \/ (roundNumber[d] >= MAX_ROUNDS /\ roundResultSafe[d])

\* Mutant of Verdict: the Dodger's ternary has the sense of the Shooter's.
Verdict_SameSense(d) ==
  IF ~roundResultSafe[d] THEN "You Win!" ELSE "You Lose!"

\* The text drawGameOverScreen() shows.
Verdict(d) ==
  IF deviceRole[d] = ROLE_SHOOTER
    THEN (IF ~roundResultSafe[d] THEN "You Win!" ELSE "You Lose!")
    ELSE (IF ~roundResultSafe[d] THEN "You Lose!" ELSE "You Win!")

\* The instruction line of drawGameScreen() on device d.
Instruction(d) ==
  IF deviceRole[d] = ROLE_SHOOTER
    THEN CASE shooterState[d] = SHOOTER_WAIT_DODGER -> "Waiting for dodger..."
           [] shooterState[d] = SHOOTER_WAIT_INPUT -> "Select barrel to shoot"
           [] shooterState[d] = SHOOTER_SHOW_RESULT ->
                (IF roundResultSafe[d] THEN "Round Safe" ELSE "Dodger Hit!")
           [] OTHER -> ""
    ELSE CASE dodgerState[d] = DODGER_WAIT_INPUT -> "Select barrel to hide"
           [] dodgerState[d] = DODGER_WAIT_SHOT -> "Waiting for shot..."
           [] dodgerState[d] = DODGER_SHOW_RESULT ->
                (IF roundResultSafe[d] THEN "Safe!" ELSE "You Were Hit!")
           [] OTHER -> ""

\* Mutant of drawGameScreen: the round line also shows the barrel received
\* from the Dodger.
drawGameScreen_ShowsDodgerChoice(d) ==
  [round |-> roundNumber[d] + 10 * dodgerChoice[d], limit |-> MAX_ROUNDS,
   text |-> Instruction(d)]

\* What drawGameScreen() puts on the display of device d: the round line
\* "Round: n / MAX_ROUNDS" and the instruction line.  The three barrel buttons
\* are the same in every state.
drawGameScreen(d) ==
  [round |-> roundNumber[d], limit |-> MAX_ROUNDS, text |-> Instruction(d)]

\* The globals resetGame() assigns, as device d holds them.
Globals(d) ==
  [roundNumber |-> roundNumber[d],
   gameOver |-> gameOver[d],
   roundResultSafe |-> roundResultSafe[d],
   dodgerChoice |-> dodgerChoice[d],
   shooterChoice |-> shooterChoice[d],
   dodgerInputReceived |-> dodgerInputReceived[d],
   notificationReceived |-> notificationReceived[d],
   receivedShooterChoice |-> receivedShooterChoice[d]]

\* Mutant of resetGameValues: the two arrived flags are not cleared.
resetGameValues_KeepsLatch(g) ==
  [g EXCEPT !.roundNumber = 1,
            !.gameOver = FALSE,
            !.roundResultSafe = FALSE,
            !.dodgerChoice = 0,
            !.shooterChoice = 0,
            !.receivedShooterChoice = 0]

\* Mutant of resetGameValues: roundResultSafe is set from the gameOver of the
\* game that ended.
resetGameValues_OutcomeFromFlag(g) ==
  [g EXCEPT !.roundNumber = 1,
            !.roundResultSafe = g.gameOver,
            !.gameOver = FALSE,
            !.dodgerChoice = 0,
            !.shooterChoice = 0,
            !.dodgerInputReceived = FALSE,
            !.notificationReceived = FALSE,
            !.receivedShooterChoice = 0]

\* The values resetGame() leaves in the globals g.
resetGameValues(g) ==
  [g EXCEPT !.roundNumber = 1,
            !.gameOver = FALSE,
            !.roundResultSafe = FALSE,
            !.dodgerChoice = 0,
            !.shooterChoice = 0,
            !.dodgerInputReceived = FALSE,
            !.notificationReceived = FALSE,
            !.receivedShooterChoice = 0]

\* The assignments of resetGame() on device d.
resetGame(d) ==
  /\ LET g == resetGameValues(Globals(d))
     IN /\ roundNumber' = [roundNumber EXCEPT ![d] = g.roundNumber]
        /\ gameOver' = [gameOver EXCEPT ![d] = g.gameOver]
        /\ roundResultSafe' = [roundResultSafe EXCEPT ![d] = g.roundResultSafe]
        /\ dodgerChoice' = [dodgerChoice EXCEPT ![d] = g.dodgerChoice]
        /\ shooterChoice' = [shooterChoice EXCEPT ![d] = g.shooterChoice]
        /\ dodgerInputReceived' =
             [dodgerInputReceived EXCEPT ![d] = g.dodgerInputReceived]
        /\ notificationReceived' =
             [notificationReceived EXCEPT ![d] = g.notificationReceived]
        /\ receivedShooterChoice' =
             [receivedShooterChoice EXCEPT ![d] = g.receivedShooterChoice]
  /\ session' = [session EXCEPT ![d] = @ + 1]
  /\ onScript' = [onScript EXCEPT ![d] = TRUE]
  /\ allDiffer' = [allDiffer EXCEPT ![d] = TRUE]
  /\ staleLatch' = [staleLatch EXCEPT ![d] = FALSE]
  /\ sent' = [sent EXCEPT ![d] = 0]

\* History: device d accepts barrel c as its own in the current round.
Picked(d, c) ==
  onScript' = [onScript EXCEPT ![d] =
                 /\ @
                 /\ roundNumber[d] \in DOMAIN Script(deviceRole[d])
                 /\ c = Script(deviceRole[d])[roundNumber[d]]]

\* History: device d sends a message.
Sent(d) == sent' = [sent EXCEPT ![d] = @ + 1]

\* History: device d starts the next round of its game.
NewRound(d) == sent' = [sent EXCEPT ![d] = 0]

\* History: device d resolves the current round from the barrels a and b.
Compared(d, a, b) ==
  allDiffer' = [allDiffer EXCEPT ![d] = @ /\ a # b]

\* ---- Shooter branch of loop()
\* Mutant of ShooterWaitDodger: the state advances whether or not the latch
\* is set.
ShooterWaitDodger_NoLatchTest(d) ==
  /\ deviceRole[d] = ROLE_SHOOTER
  /\ shooterState[d] = SHOOTER_WAIT_DODGER
  /\ shooterState' = [shooterState EXCEPT ![d] = SHOOTER_WAIT_INPUT]
  /\ dodgerInputReceived' = [dodgerInputReceived EXCEPT ![d] = FALSE]
  /\ staleLatch' = [staleLatch EXCEPT ![d] = FALSE]
  /\ UNCHANGED <<dodgerState, roundNumber, gameOver, roundResultSafe, dodgerChoice,
                 shooterChoice, notificationReceived, receivedShooterChoice,
                 linkVars, gameHist, sent>>

\* SHOOTER_WAIT_DODGER: the latch set by onWrite is consumed.
ShooterWaitDodger(d) ==
  /\ deviceRole[d] = ROLE_SHOOTER
  /\ shooterState[d] = SHOOTER_WAIT_DODGER
  /\ dodgerInputReceived[d]
  /\ shooterState' = [shooterState EXCEPT ![d] = SHOOTER_WAIT_INPUT]
  /\ dodgerInputReceived' = [dodgerInputReceived EXCEPT ![d] = FALSE]
  /\ staleLatch' = [staleLatch EXCEPT ![d] = FALSE]
  /\ UNCHANGED <<dodgerState, roundNumber, gameOver, roundResultSafe, dodgerChoice,
                 shooterChoice, notificationReceived, receivedShooterChoice,
                 linkVars, gameHist, sent>>

\* SHOOTER_WAIT_INPUT with a click at t; elapsed says whether the debounce
\* time has passed since the last accepted touch.
ShooterWaitInput(d, t, elapsed) ==
  /\ deviceRole[d] = ROLE_SHOOTER
  /\ shooterState[d] = SHOOTER_WAIT_INPUT
  /\ IF ~elapsed
       THEN UNCHANGED vars
       ELSE LET c == SelectBarrel(t, shooterChoice[d])
                safe == CompareSafe(c, dodgerChoice[d])
            IN /\ shooterChoice' = [shooterChoice EXCEPT ![d] = c]
               /\ IF c >= 1 /\ c <= 3
                    THEN /\ roundResultSafe' = [roundResultSafe EXCEPT ![d] = safe]
                         /\ gameOver' = [gameOver EXCEPT ![d] = IF safe THEN @ ELSE TRUE]
                         /\ IF deviceConnected[d]
                              THEN /\ Len(notifies) < MaxQueue
                                   /\ notifies' = Append(notifies, sprintf(c))
                                   /\ Sent(d)
                              ELSE UNCHANGED <<notifies, sent>>
                         /\ shooterState' = [shooterState EXCEPT ![d] = SHOOTER_SHOW_RESULT]
                         /\ Picked(d, c)
                         /\ Compared(d, c, dodgerChoice[d])
                    ELSE UNCHANGED <<roundResultSafe, gameOver, notifies, shooterState,
                                     onScript, allDiffer, sent>>
               /\ UNCHANGED <<dodgerState, roundNumber, dodgerChoice, latchVars,
                              deviceRole, deviceConnected, pRemoteCharacteristic,
                              writes, session, staleLatch>>

\* SHOOTER_SHOW_RESULT, after the 1.5 s dwell.
ShooterShowResult(d) ==
  /\ deviceRole[d] = ROLE_SHOOTER
  /\ shooterState[d] = SHOOTER_SHOW_RESULT
  /\ IF SessionEnds(d)
       THEN /\ shooterState' = [shooterState EXCEPT ![d] = SHOOTER_GAME_OVER]
            /\ UNCHANGED roundNumber
            /\ UNCHANGED sent
       ELSE /\ roundNumber' = [roundNumber EXCEPT ![d] = @ + 1]
            /\ shooterState' = [shooterState EXCEPT ![d] = SHOOTER_WAIT_DODGER]
            /\ NewRound(d)
  /\ UNCHANGED <<dodgerState, gameOver, roundResultSafe, dodgerChoice, shooterChoice,
                 latchVars, linkVars, gameHist, staleLatch>>

\* Mutant of ShooterGameOver: a tap beside the restart button starts the next
\* round.
ShooterGameOver_TapAdvancesRound(d, t, elapsed) ==
  /\ deviceRole[d] = ROLE_SHOOTER
  /\ shooterState[d] = SHOOTER_GAME_OVER
  /\ IF elapsed /\ OnRestartButton(t)
       THEN /\ session[d] < MaxSessions
            /\ resetGame(d)
            /\ shooterState' = [shooterState EXCEPT ![d] = SHOOTER_WAIT_DODGER]
            /\ UNCHANGED <<dodgerState, linkVars>>
       ELSE IF elapsed
         THEN /\ roundNumber' = [roundNumber EXCEPT ![d] = @ + 1]
              /\ UNCHANGED <<shooterState, dodgerState, gameOver, roundResultSafe,
                             dodgerChoice, shooterChoice, latchVars, linkVars, histVars>>
         ELSE UNCHANGED vars

\* Mutant of ShooterGameOver: the restart button is tested in every state of
\* the Shooter.
ShooterGameOver_AnyState(d, t, elapsed) ==
  /\ deviceRole[d] = ROLE_SHOOTER
  /\ IF elapsed /\ OnRestartButton(t)
       THEN /\ session[d] < MaxSessions
            /\ resetGame(d)
            /\ shooterState' = [shooterState EXCEPT ![d] = SHOOTER_WAIT_DODGER]
            /\ UNCHANGED <<dodgerState, linkVars>>
       ELSE UNCHANGED vars

\* SHOOTER_GAME_OVER with a click at t.
ShooterGameOver(d, t, elapsed) ==
  /\ deviceRole[d] = ROLE_SHOOTER
  /\ shooterState[d] = SHOOTER_GAME_OVER
  /\ IF elapsed /\ OnRestartButton(t)
       THEN /\ session[d] < MaxSessions
            /\ resetGame(d)
            /\ shooterState' = [shooterState EXCEPT ![d] = SHOOTER_WAIT_DODGER]
            /\ UNCHANGED <<dodgerState, linkVars>>
       ELSE UNCHANGED vars

\* ---- Dodger branch of loop()
\* Mutant of DodgerWaitInput: the state advances only when the barrel could
\* be written to the remote characteristic.
DodgerWaitInput_NeedsChannel(d, t, elapsed) ==
  /\ deviceRole[d] = ROLE_DODGER
  /\ dodgerState[d] = DODGER_WAIT_INPUT
  /\ IF ~elapsed
       THEN UNCHANGED vars
       ELSE LET c == SelectBarrel(t, dodgerChoice[d])
            IN /\ dodgerChoice' = [dodgerChoice EXCEPT ![d] = c]
               /\ IF c >= 1 /\ c <= 3 /\ pRemoteCharacteristic[d]
                    THEN /\ Len(writes) < MaxQueue
                         /\ writes' = Append(writes, sprintf(c))
                         /\ Sent(d)
                         /\ dodgerState' = [dodgerState EXCEPT ![d] = DODGER_WAIT_SHOT]
                         /\ Picked(d, c)
                    ELSE UNCHANGED <<writes, dodgerState, onScript, sent>>
               /\ UNCHANGED <<shooterState, roundNumber, gameOver, roundResultSafe,
                              shooterChoice, latchVars, deviceRole, deviceConnected,
                              pRemoteCharacteristic, notifies, session, allDiffer,
                              staleLatch>>

\* Mutant of DodgerWaitInput: the barrel is written at every accepted tap and
\* the state advances only once the Shooter has a central connected.
DodgerWaitInput_SendsAndStays(d, t, elapsed) ==
  /\ deviceRole[d] = ROLE_DODGER
  /\ dodgerState[d] = DODGER_WAIT_INPUT
  /\ IF ~elapsed
       THEN UNCHANGED vars
       ELSE LET c == SelectBarrel(t, dodgerChoice[d])
            IN /\ dodgerChoice' = [dodgerChoice EXCEPT ![d] = c]
               /\ IF c >= 1 /\ c <= 3
                    THEN /\ IF pRemoteCharacteristic[d]
                              THEN /\ Len(writes) < MaxQueue
                                   /\ writes' = Append(writes, sprintf(c))
                                   /\ Sent(d)
                              ELSE UNCHANGED <<writes, sent>>
                         /\ dodgerState' =
                              [dodgerState EXCEPT ![d] =
                                 IF writes = <<>> THEN DODGER_WAIT_SHOT ELSE @]
                         /\ Picked(d, c)
                    ELSE UNCHANGED <<writes, dodgerState, onScript, sent>>
               /\ UNCHANGED <<shooterState, roundNumber, gameOver, roundResultSafe,
                              shooterChoice, latchVars, deviceRole, deviceConnected,
                              pRemoteCharacteristic, notifies, session, allDiffer,
                              staleLatch>>

\* DODGER_WAIT_INPUT with a click at t.
DodgerWaitInput(d, t, elapsed) ==
  /\ deviceRole[d] = ROLE_DODGER
  /\ dodgerState[d] = DODGER_WAIT_INPUT
  /\ IF ~elapsed
       THEN UNCHANGED vars
       ELSE LET c == SelectBarrel(t, dodgerChoice[d])
            IN /\ dodgerChoice' = [dodgerChoice EXCEPT ![d] = c]
               /\ IF c >= 1 /\ c <= 3
                    THEN /\ IF pRemoteCharacteristic[d]
                              THEN /\ Len(writes) < MaxQueue
                                   /\ writes' = Append(writes, sprintf(c))
                                   /\ Sent(d)
                              ELSE UNCHANGED <<writes, sent>>
                         /\ dodgerState' = [dodgerState EXCEPT ![d] = DODGER_WAIT_SHOT]
                         /\ Picked(d, c)
                    ELSE UNCHANGED <<writes, dodgerState, onScript, sent>>
               /\ UNCHANGED <<shooterState, roundNumber, gameOver, roundResultSafe,
                              shooterChoice, latchVars, deviceRole, deviceConnected,
                              pRemoteCharacteristic, notifies, session, allDiffer,
                              staleLatch>>

\* Mutant of DodgerWaitShot: the round is resolved from receivedShooterChoice
\* whether or not a notification has arrived.
DodgerWaitShot_TimesOut(d) ==
  /\ deviceRole[d] = ROLE_DODGER
  /\ dodgerState[d] = DODGER_WAIT_SHOT
  /\ LET safe == CompareSafe(receivedShooterChoice[d], dodgerChoice[d])
     IN /\ notificationReceived' = [notificationReceived EXCEPT ![d] = FALSE]
        /\ roundResultSafe' = [roundResultSafe EXCEPT ![d] = safe]
        /\ gameOver' = [gameOver EXCEPT ![d] = IF safe THEN @ ELSE TRUE]
        /\ dodgerState' = [dodgerState EXCEPT ![d] = DODGER_SHOW_RESULT]
        /\ Compared(d, receivedShooterChoice[d], dodgerChoice[d])
        /\ staleLatch' = [staleLatch EXCEPT ![d] = FALSE]
  /\ UNCHANGED <<shooterState, roundNumber, dodgerChoice, shooterChoice,
                 dodgerInputReceived, receivedShooterChoice, linkVars, session,
                 onScript, sent>>

\* Mutant of DodgerWaitShot: while no notification has arrived the Dodger
\* writes its barrel again.
DodgerWaitShot_Resends(d) ==
  /\ deviceRole[d] = ROLE_DODGER
  /\ dodgerState[d] = DODGER_WAIT_SHOT
  /\ IF notificationReceived[d]
       THEN LET safe == CompareSafe(receivedShooterChoice[d], dodgerChoice[d])
            IN /\ notificationReceived' = [notificationReceived EXCEPT ![d] = FALSE]
               /\ roundResultSafe' = [roundResultSafe EXCEPT ![d] = safe]
               /\ gameOver' = [gameOver EXCEPT ![d] = IF safe THEN @ ELSE TRUE]
               /\ dodgerState' = [dodgerState EXCEPT ![d] = DODGER_SHOW_RESULT]
               /\ Compared(d, receivedShooterChoice[d], dodgerChoice[d])
               /\ staleLatch' = [staleLatch EXCEPT ![d] = FALSE]
               /\ UNCHANGED <<shooterState, roundNumber, dodgerChoice, shooterChoice,
                              dodgerInputReceived, receivedShooterChoice, linkVars,
                              session, onScript, sent>>
       ELSE /\ pRemoteCharacteristic[d]
            /\ Len(writes) < MaxQueue
            /\ sent[d] < MaxQueue
            /\ writes' = Append(writes, sprintf(dodgerChoice[d]))
            /\ Sent(d)
            /\ UNCHANGED <<gameVars, latchVars, deviceRole, deviceConnected,
                           pRemoteCharacteristic, notifies, gameHist, staleLatch>>

\* DODGER_WAIT_SHOT: the latch set by notifyCallback is consumed and the round
\* is resolved.
DodgerWaitShot(d) ==
  /\ deviceRole[d] = ROLE_DODGER
  /\ dodgerState[d] = DODGER_WAIT_SHOT
  /\ notificationReceived[d]
  /\ LET safe == CompareSafe(receivedShooterChoice[d], dodgerChoice[d])
     IN /\ notificationReceived' = [notificationReceived EXCEPT ![d] = FALSE]
        /\ roundResultSafe' = [roundResultSafe EXCEPT ![d] = safe]
        /\ gameOver' = [gameOver EXCEPT ![d] = IF safe THEN @ ELSE TRUE]
        /\ dodgerState' = [dodgerState EXCEPT ![d] = DODGER_SHOW_RESULT]
        /\ Compared(d, receivedShooterChoice[d], dodgerChoice[d])
        /\ staleLatch' = [staleLatch EXCEPT ![d] = FALSE]
  /\ UNCHANGED <<shooterState, roundNumber, dodgerChoice, shooterChoice,
                 dodgerInputReceived, receivedShooterChoice, linkVars, session,
                 onScript, sent>>

\* Mutant of DodgerShowResult: gameOver is cleared when the game-over state is
\* entered.
DodgerShowResult_ClearsGameOver(d) ==
  /\ deviceRole[d] = ROLE_DODGER
  /\ dodgerState[d] = DODGER_SHOW_RESULT
  /\ IF SessionEnds(d)
       THEN /\ dodgerState' = [dodgerState EXCEPT ![d] = DODGER_GAME_OVER]
            /\ gameOver' = [gameOver EXCEPT ![d] = FALSE]
            /\ UNCHANGED <<roundNumber, sent>>
       ELSE /\ roundNumber' = [roundNumber EXCEPT ![d] = @ + 1]
            /\ dodgerState' = [dodgerState EXCEPT ![d] = DODGER_WAIT_INPUT]
            /\ NewRound(d)
            /\ UNCHANGED gameOver
  /\ UNCHANGED <<shooterState, roundResultSafe, dodgerChoice, shooterChoice,
                 latchVars, linkVars, gameHist, staleLatch>>

\* DODGER_SHOW_RESULT, after the 1.5 s dwell.
DodgerShowResult(d) ==
  /\ deviceRole[d] = ROLE_DODGER
  /\ dodgerState[d] = DODGER_SHOW_RESULT
  /\ IF SessionEnds(d)
       THEN /\ dodgerState' = [dodgerState EXCEPT ![d] = DODGER_GAME_OVER]
            /\ UNCHANGED <<roundNumber, sent>>
       ELSE /\ roundNumber' = [roundNumber EXCEPT ![d] = @ + 1]
            /\ dodgerState' = [dodgerState EXCEPT ![d] = DODGER_WAIT_INPUT]
            /\ NewRound(d)
  /\ UNCHANGED <<shooterState, gameOver, roundResultSafe, dodgerChoice, shooterChoice,
                 latchVars, linkVars, gameHist, staleLatch>>

\* Mutant of DodgerGameOver: the restart also returns the device to the role
\* selection.
DodgerGameOver_ReselectsRole(d, t, elapsed) ==
  /\ deviceRole[d] = ROLE_DODGER
  /\ dodgerState[d] = DODGER_GAME_OVER
  /\ IF elapsed /\ OnRestartButton(t)
       THEN /\ session[d] < MaxSessions
            /\ resetGame(d)
            /\ dodgerState' = [dodgerState EXCEPT ![d] = DODGER_WAIT_INPUT]
            /\ deviceRole' = [deviceRole EXCEPT ![d] = ROLE_UNDEFINED]
            /\ UNCHANGED <<shooterState, deviceConnected, pRemoteCharacteristic,
                           writes, notifies>>
       ELSE UNCHANGED vars

\* DODGER_GAME_OVER with a click at t.
DodgerGameOver(d, t, elapsed) ==
  /\ deviceRole[d] = ROLE_DODGER
  /\ dodgerState[d] = DODGER_GAME_OVER
  /\ IF elapsed /\ OnRestartButton(t)
       THEN /\ session[d] < MaxSessions
            /\ resetGame(d)
            /\ dodgerState' = [dodgerState EXCEPT ![d] = DODGER_WAIT_INPUT]
            /\ UNCHANGED <<shooterState, linkVars>>
       ELSE UNCHANGED vars

\* ---- BLE callbacks (they run in the BLE task, between two steps of loop())
\* History: the Shooter has taken the Dodger's barrel of its round and has not
\* answered yet, so the Dodger, which waits for that answer, cannot have sent
\* the barrel of a later round.
ShooterAwaitsOwnChoice(d) == shooterState[d] = SHOOTER_WAIT_INPUT

\* History: the Dodger has not sent the barrel the Shooter's next notification
\* would answer, and it has sent one before, in this game or an earlier one.
DodgerHasNotAsked(d) ==
  /\ dodgerState[d] # DODGER_WAIT_SHOT
  /\ ~(dodgerState[d] = DODGER_WAIT_INPUT /\ roundNumber[d] = 1 /\ session[d] = 1)

\* MyCharacteristicCallbacks::onWrite with the characteristic's value rxValue.
onWrite(d, rxValue) ==
  IF Len(rxValue) > 0
    THEN /\ dodgerChoice' = [dodgerChoice EXCEPT ![d] = atoi(rxValue)]
         /\ dodgerInputReceived' = [dodgerInputReceived EXCEPT ![d] = TRUE]
         /\ staleLatch' = [staleLatch EXCEPT ![d] = ShooterAwaitsOwnChoice(d)]
    ELSE UNCHANGED <<dodgerChoice, dodgerInputReceived, staleLatch>>

\* notifyCallback with length bytes at pData; after is what the buffer holds
\* behind them, which atoi reads on until a byte that is no digit.
notifyCallback(d, pData, after) ==
  IF Len(pData) > 0
    THEN /\ receivedShooterChoice' =
              [receivedShooterChoice EXCEPT ![d] = atoi(pData \o after)]
         /\ notificationReceived' = [notificationReceived EXCEPT ![d] = TRUE]
         /\ staleLatch' = [staleLatch EXCEPT ![d] = DodgerHasNotAsked(d)]
    ELSE UNCHANGED <<receivedShooterChoice, notificationReceived, staleLatch>>

\* MyServerCallbacks::onConnect / onDisconnect.
onConnect(d) ==
  /\ deviceRole[d] = ROLE_SHOOTER
  /\ ~deviceConnected[d]
  /\ deviceConnected' = [deviceConnected EXCEPT ![d] = TRUE]
  /\ UNCHANGED <<gameVars, latchVars, deviceRole, pRemoteCharacteristic, writes,
                 notifies, histVars>>

onDisconnect(d) ==
  /\ deviceRole[d] = ROLE_SHOOTER
  /\ deviceConnected[d]
  /\ deviceConnected' = [deviceConnected EXCEPT ![d] = FALSE]
  /\ UNCHANGED <<gameVars, latchVars, deviceRole, pRemoteCharacteristic, writes,
                 notifies, histVars>>

\* The oldest write in flight reaches the Shooter's characteristic.
DeliverWrite ==
  /\ deviceRole[Sh] = ROLE_SHOOTER
  /\ writes # <<>>
  /\ onWrite(Sh, Head(writes))
  /\ writes' = Tail(writes)
  /\ UNCHANGED <<shooterState, dodgerState, roundNumber, gameOver, roundResultSafe,
                 shooterChoice, notificationReceived, receivedShooterChoice,
                 deviceRole, deviceConnected, pRemoteCharacteristic, notifies, gameHist, sent>>

\* The oldest notification in flight reaches the Dodger's client.
DeliverNotify ==
  /\ deviceRole[Dg] = ROLE_DODGER
  /\ pRemoteCharacteristic[Dg]
  /\ notifies # <<>>
  /\ \E after \in Overread : notifyCallback(Dg, Head(notifies), after)
  /\ notifies' = Tail(notifies)
  /\ UNCHANGED <<gameVars, dodgerInputReceived, deviceRole, deviceConnected,
                 pRemoteCharacteristic, writes, gameHist, sent>>

\* Another central writes the characteristic.
ForeignWrite(rxValue) ==
  /\ deviceRole[Sh] = ROLE_SHOOTER
  /\ onWrite(Sh, rxValue)
  /\ UNCHANGED <<shooterState, dodgerState, roundNumber, gameOver, roundResultSafe,
                 shooterChoice, notificationReceived, receivedShooterChoice,
                 linkVars, gameHist, sent>>

\* The server the Dodger found notifies a value the Shooter's program did not
\* send.
ForeignNotify(pData) ==
  /\ deviceRole[Dg] = ROLE_DODGER
  /\ pRemoteCharacteristic[Dg]
  /\ \E after \in Overread : notifyCallback(Dg, pData, after)
  /\ UNCHANGED <<gameVars, dodgerInputReceived, linkVars, gameHist, sent>>

\* A message in flight leaves the link without reaching a device of the game:
\* the peer that takes it is another BLE device, or the link loses it.
LoseWrite ==
  /\ writes # <<>>
  /\ writes' = Tail(writes)
  /\ UNCHANGED <<gameVars, latchVars, deviceRole, deviceConnected,
                 pRemoteCharacteristic, notifies, histVars>>

LoseNotify ==
  /\ notifies # <<>>
  /\ notifies' = Tail(notifies)
  /\ UNCHANGED <<gameVars, latchVars, deviceRole, deviceConnected,
                 pRemoteCharacteristic, writes, histVars>>

\* ---------------------------------------------------------- specifications
\* Mutant of Tick: the barrel buttons are also read while the Dodger waits for
\* the shot, and the tap is kept as the Dodger's barrel.
Tick_SelectsWhileWaiting ==
  \E d \in Devices :
    \/ ShooterWaitDodger(d)
    \/ \E t \in Touches, elapsed \in BOOLEAN : ShooterWaitInput(d, t, elapsed)
    \/ ShooterShowResult(d)
    \/ \E t \in Touches, elapsed \in BOOLEAN : ShooterGameOver(d, t, elapsed)
    \/ \E t \in Touches, elapsed \in BOOLEAN : DodgerWaitInput(d, t, elapsed)
    \/ DodgerWaitShot(d)
    \/ DodgerShowResult(d)
    \/ \E t \in Touches, elapsed \in BOOLEAN : DodgerGameOver(d, t, elapsed)
    \/ \E t \in Touches :
         /\ deviceRole[d] = ROLE_DODGER
         /\ dodgerState[d] = DODGER_WAIT_SHOT
         /\ dodgerChoice' = [dodgerChoice EXCEPT ![d] = SelectBarrel(t, @)]
         /\ UNCHANGED <<shooterState, dodgerState, roundNumber, gameOver,
                        roundResultSafe, shooterChoice, latchVars, linkVars, histVars>>

\* One pass of loop() on one device.
Tick ==
  \E d \in Devices :
    \/ ShooterWaitDodger(d)
    \/ \E t \in Touches, elapsed \in BOOLEAN : ShooterWaitInput(d, t, elapsed)
    \/ ShooterShowResult(d)
    \/ \E t \in Touches, elapsed \in BOOLEAN : ShooterGameOver(d, t, elapsed)
    \/ \E t \in Touches, elapsed \in BOOLEAN : DodgerWaitInput(d, t, elapsed)
    \/ DodgerWaitShot(d)
    \/ DodgerShowResult(d)
    \/ \E t \in Touches, elapsed \in BOOLEAN : DodgerGameOver(d, t, elapsed)

Deliver == DeliverWrite \/ DeliverNotify

Link == \E d \in Devices : onConnect(d) \/ onDisconnect(d)

Foreign ==
  \/ \E rxValue \in ForeignPayloads : ForeignWrite(rxValue)
  \/ \E pData \in ForeignPayloads : ForeignNotify(pData)

Lose == LoseWrite \/ LoseNotify

\* One device of the game and whatever its BLE peer and link may do.
Next == Tick \/ Link \/ Foreign \/ Lose
Spec == Init /\ [][Next]_vars

\* The two devices of a game on a connected, ordered link that delivers each
\* message once.
NextReliable == Tick \/ Deliver
SpecReliable == InitReliable /\ [][NextReliable]_vars

\* A player's tap on a barrel button that the own-choice state accepts.
ShooterSelects ==
  \E t \in Touches :
    ShooterWaitInput(Sh, t, TRUE) /\ shooterState'[Sh] = SHOOTER_SHOW_RESULT

DodgerSelects ==
  \E t \in Touches :
    DodgerWaitInput(Dg, t, TRUE) /\ dodgerState'[Dg] = DODGER_WAIT_SHOT

\* loop() is called again and again on both devices, so a branch that can
\* advance does; the link delivers what is in flight; a player whose device
\* awaits the own choice taps a barrel in the end.  Nobody has to tap Restart.
Fairness ==
  /\ WF_vars(ShooterWaitDodger(Sh))
  /\ WF_vars(ShooterShowResult(Sh))
  /\ WF_vars(DodgerWaitShot(Dg))
  /\ WF_vars(DodgerShowResult(Dg))
  /\ WF_vars(DeliverWrite)
  /\ WF_vars(DeliverNotify)
  /\ WF_vars(ShooterSelects)
  /\ WF_vars(DodgerSelects)

\* The two devices on the reliable link, with fair loops, link and players.
SpecLive == InitReliable /\ [][NextReliable]_vars /\ Fairness

\* ------------------------------------------------------------------ claims
\* Steps and states the claims speak of.
ShooterResolves(d) ==
  shooterState[d] = SHOOTER_WAIT_INPUT /\ shooterState'[d] = SHOOTER_SHOW_RESULT

DodgerResolves(d) ==
  dodgerState[d] = DODGER_WAIT_SHOT /\ dodgerState'[d] = DODGER_SHOW_RESULT

InGameOver(d) ==
  \/ deviceRole[d] = ROLE_SHOOTER /\ shooterState[d] = SHOOTER_GAME_OVER
  \/ deviceRole[d] = ROLE_DODGER /\ dodgerState[d] = DODGER_GAME_OVER

InShowResult(d) ==
  \/ deviceRole[d] = ROLE_SHOOTER /\ shooterState[d] = SHOOTER_SHOW_RESULT
  \/ deviceRole[d] = ROLE_DODGER /\ dodgerState[d] = DODGER_SHOW_RESULT

\* The round device d resolved last in its game, 0 when it resolved none.
ResolvedRound(d) ==
  IF InShowResult(d) \/ InGameOver(d) THEN roundNumber[d] ELSE roundNumber[d] - 1

Positions == 1..NUM_BARRELS

\* C1: a round is resolved Unsafe (gameOver set, roundResultSafe false) exactly
\* when the Shooter's barrel equals the Dodger's barrel, and Safe otherwise:
\* on the Shooter when it accepts its selection, on the Dodger when it consumes
\* the Shooter's barrel.
C1_UnsafeIffSameBarrel ==
  [][\A d \in Devices :
       /\ ShooterResolves(d) /\ dodgerChoice[d] \in Positions =>
            LET hit == shooterChoice'[d] = dodgerChoice[d]
            IN /\ roundResultSafe'[d] = ~hit
               /\ gameOver'[d] = (gameOver[d] \/ hit)
       /\ DodgerResolves(d) /\ receivedShooterChoice[d] \in Positions =>
            LET hit == receivedShooterChoice[d] = dodgerChoice[d]
            IN /\ roundResultSafe'[d] = ~hit
               /\ gameOver'[d] = (gameOver[d] \/ hit)]_vars

\* C2: on a connected link that delivers every message once and in order, the
\* two devices record the same outcome for every round both resolve in a game,
\* and they are in game over after the same round with the same gameOver.
C2_Agreement ==
  session[Sh] = session[Dg] =>
    /\ ResolvedRound(Sh) = ResolvedRound(Dg) /\ ResolvedRound(Sh) >= 1 =>
         roundResultSafe[Sh] = roundResultSafe[Dg]
    /\ InGameOver(Sh) /\ InGameOver(Dg) =>
         roundNumber[Sh] = roundNumber[Dg] /\ gameOver[Sh] = gameOver[Dg]

\* C3: when both devices are in game over for the same game, one shows Win
\* and the other shows Lose.
C3_OneWinner ==
  session[Sh] = session[Dg] /\ InGameOver(Sh) /\ InGameOver(Dg) =>
    Verdict(Sh) # Verdict(Dg)

\* C4: in every game-over state the verdict shown is the one gameOver and the
\* role give: the Dodger loses and the Shooter wins when gameOver is set, the
\* Dodger wins and the Shooter loses when it is not.
C4_VerdictFromGameOver ==
  \A d \in Devices :
    InGameOver(d) =>
      /\ gameOver[d] = ~roundResultSafe[d]
      /\ Verdict(d) =
           IF deviceRole[d] = ROLE_DODGER
             THEN (IF gameOver[d] THEN "You Lose!" ELSE "You Win!")
             ELSE (IF gameOver[d] THEN "You Win!" ELSE "You Lose!")

\* A Dodger in game over that was never hit.
C4_Witness ==
  dodgerState[Dg] = DODGER_GAME_OVER /\ ~gameOver[Dg] /\ deviceRole[Dg] = ROLE_DODGER

\* The game is over after the round device d has resolved: it was hit, or it
\* was safe in a round that reached the limit.
ShowResultEnds(d) ==
  gameOver[d] \/ (roundResultSafe[d] /\ roundNumber[d] >= MAX_ROUNDS)

\* C5: when SHOW_RESULT completes the device goes to game over exactly when
\* gameOver is set or the round just resolved was safe with roundNumber >=
\* MAX_ROUNDS; otherwise roundNumber grows by one and the device is back in
\* its first state of a round.  A game-over state is thus entered in the round
\* of the hit, or after MAX_ROUNDS safe rounds.
C5_ShowResultCompletion ==
  [][\A d \in Devices :
       /\ (shooterState[d] = SHOOTER_SHOW_RESULT /\ shooterState'[d] # SHOOTER_SHOW_RESULT) =>
            IF ShowResultEnds(d)
              THEN /\ shooterState'[d] = SHOOTER_GAME_OVER
                   /\ roundNumber'[d] = roundNumber[d]
                   /\ gameOver[d] \/ roundNumber[d] = MAX_ROUNDS
              ELSE /\ shooterState'[d] = SHOOTER_WAIT_DODGER
                   /\ roundNumber'[d] = roundNumber[d] + 1
       /\ (dodgerState[d] = DODGER_SHOW_RESULT /\ dodgerState'[d] # DODGER_SHOW_RESULT) =>
            IF ShowResultEnds(d)
              THEN /\ dodgerState'[d] = DODGER_GAME_OVER
                   /\ roundNumber'[d] = roundNumber[d]
                   /\ gameOver[d] \/ roundNumber[d] = MAX_ROUNDS
              ELSE /\ dodgerState'[d] = DODGER_WAIT_INPUT
                   /\ roundNumber'[d] = roundNumber[d] + 1
       /\ (shooterState'[d] = SHOOTER_GAME_OVER /\ shooterState[d] # SHOOTER_GAME_OVER) =>
            shooterState[d] = SHOOTER_SHOW_RESULT
       /\ (dodgerState'[d] = DODGER_GAME_OVER /\ dodgerState[d] # DODGER_GAME_OVER) =>
            dodgerState[d] = DODGER_SHOW_RESULT]_vars

\* A Shooter in game over after MAX_ROUNDS safe rounds.
C5_Witness ==
  /\ shooterState[Sh] = SHOOTER_GAME_OVER /\ deviceRole[Sh] = ROLE_SHOOTER
  /\ ~gameOver[Sh] /\ roundNumber[Sh] = MAX_ROUNDS

\* The verdict the specification gives a role after a hit and after no hit.
VerdictOf(role, hit) ==
  IF role = ROLE_DODGER
    THEN (IF hit THEN "You Lose!" ELSE "You Win!")
    ELSE (IF hit THEN "You Win!" ELSE "You Lose!")

\* C6: in a game where the Dodger hides in 2 in every round and the Shooter
\* shoots 1, 3, 2, on a connected link that delivers every message once and in
\* order, rounds 1 and 2 are resolved Safe and round 3 Unsafe on both devices,
\* both are in game over with roundNumber = 3 and gameOver set, the Dodger
\* loses, the Shooter wins, and no round after the third is started.
C6_ScenarioHitInRound3 ==
  (session[Sh] = session[Dg] /\ onScript[Sh] /\ onScript[Dg]) =>
    \A d \in Devices :
      /\ roundNumber[d] <= 3
      /\ (InShowResult(d) \/ InGameOver(d)) =>
           roundResultSafe[d] = (roundNumber[d] < 3)
      /\ InGameOver(d) =>
           /\ roundNumber[d] = 3
           /\ gameOver[d]
           /\ Verdict(d) = VerdictOf(deviceRole[d], TRUE)

\* C7: in a game where the Shooter's barrel differs from the Dodger's in every
\* round, on a connected link that delivers every message once and in order,
\* every round is resolved Safe, and the devices are in game over only after
\* round MAX_ROUNDS, with gameOver not set, the Dodger winning and the Shooter
\* losing.
C7_ScenarioFiveSafeRounds ==
  (session[Sh] = session[Dg] /\ allDiffer[Sh]) =>
    \A d \in Devices :
      /\ (InShowResult(d) \/ InGameOver(d)) =>
           roundResultSafe[d] /\ ~gameOver[d]
      /\ InGameOver(d) =>
           /\ roundNumber[d] = MAX_ROUNDS
           /\ Verdict(d) = VerdictOf(deviceRole[d], FALSE)

\* C8: an inbound message whose payload does not decode to a barrel in 1..3
\* is discarded: its delivery changes neither the state of the receiving
\* device, nor the barrels recorded for the round, the outcome, gameOver or
\* roundNumber, and it latches nothing that lets the state advance.
C8_BadPayloadDiscarded ==
  [][/\ \A rxValue \in ForeignPayloads :
          ForeignWrite(rxValue) /\ atoi(rxValue) \notin Positions =>
            UNCHANGED <<gameVars, latchVars>>
     /\ \A pData \in ForeignPayloads :
          ForeignNotify(pData) /\ atoi(pData) \notin Positions =>
            UNCHANGED <<gameVars, latchVars>>]_vars

\* A touch on none of the three barrel buttons.
OnNoButton(t) == SelectBarrel(t, 0) = 0

\* C9: a touch on no barrel button while the device waits for its own choice
\* causes no transition, sends no message and changes neither the outcome,
\* gameOver nor roundNumber, in any round of any game.
C9_StrayTouchIgnored ==
  [][\A d \in Devices : \A t \in Touches :
       OnNoButton(t) /\ (ShooterWaitInput(d, t, TRUE) \/ DodgerWaitInput(d, t, TRUE)) =>
         UNCHANGED <<gameVars, latchVars, writes, notifies>>]_vars

CallbackRuns(d) ==
  \/ d = Sh /\ (DeliverWrite \/ \E rxValue \in ForeignPayloads : ForeignWrite(rxValue))
  \/ d = Dg /\ (DeliverNotify \/ \E pData \in ForeignPayloads : ForeignNotify(pData))

\* C11: a delivery callback, wherever it falls between the steps of loop(),
\* changes only the latch (the arrived flag and the received payload): it
\* leaves the state of either role, roundNumber, gameOver, roundResultSafe and
\* shooterChoice as they are, and it leaves dodgerChoice as it is once loop()
\* has taken the Dodger's barrel for the round (the Shooter has left
\* SHOOTER_WAIT_DODGER) and on the Dodger.
C11_CallbacksWriteOnlyLatch ==
  [][\A d \in Devices :
       CallbackRuns(d) =>
         /\ UNCHANGED <<shooterState, dodgerState, roundNumber, gameOver,
                        roundResultSafe, shooterChoice>>
         /\ (deviceRole[d] = ROLE_DODGER \/ shooterState[d] # SHOOTER_WAIT_DODGER) =>
              dodgerChoice'[d] = dodgerChoice[d]]_vars

\* C12: a message that came too early to belong to the wait the receiver
\* enters next (a duplicate or a delayed message of an earlier round, latched
\* when the receiver enters its waiting state) is not used to leave that
\* waiting state.
C12_StaleMessageIgnored ==
  [][\A d \in Devices :
       /\ (shooterState[d] = SHOOTER_WAIT_DODGER /\ shooterState'[d] = SHOOTER_WAIT_INPUT) =>
            ~staleLatch[d]
       /\ DodgerResolves(d) => ~staleLatch[d]]_vars

\* C13: in every reachable state of either device roundNumber is at least 1
\* and at most MAX_ROUNDS + 1.
C13_RoundNumberInRange ==
  \A d \in Devices : roundNumber[d] >= 1 /\ roundNumber[d] <= MAX_ROUNDS + 1

\* A device shows the result of round MAX_ROUNDS of its second game.
C13_Witness ==
  \E d \in Devices :
    InShowResult(d) /\ roundNumber[d] = MAX_ROUNDS /\ session[d] = 2

\* A step in which resetGame() runs on device d.
ResetRuns(d) == session'[d] # session[d]

\* C14: once gameOver is set it stays set in every step that does not run
\* resetGame.
C14_GameOverMonotonic ==
  [][\A d \in Devices : gameOver[d] /\ ~ResetRuns(d) => gameOver'[d]]_vars

\* A device was hit, restarted, and was hit again in its second game.
C14_Witness ==
  \E d \in Devices : InGameOver(d) /\ gameOver[d] /\ session[d] = 2

\* A step in which device d accepts a tap on the restart button.
RestartAccepted(d) ==
  \E t \in Touches :
    /\ OnRestartButton(t)
    /\ InGameOver(d)
    /\ ShooterGameOver(d, t, TRUE) \/ DodgerGameOver(d, t, TRUE)

\* C15: a restart accepted in the game-over state leaves roundNumber = 1,
\* gameOver false, both recorded barrels cleared, both arrived flags cleared
\* and the device in the first state of a round of its role, whatever the
\* game that ended left behind.
C15_RestartGivesInitialSession ==
  [][\A d \in Devices :
       RestartAccepted(d) =>
         /\ roundNumber'[d] = 1
         /\ ~gameOver'[d]
         /\ dodgerChoice'[d] = 0 /\ shooterChoice'[d] = 0
         /\ ~dodgerInputReceived'[d] /\ ~notificationReceived'[d]
         /\ deviceRole[d] = ROLE_SHOOTER => shooterState'[d] = SHOOTER_WAIT_DODGER
         /\ deviceRole[d] = ROLE_DODGER => dodgerState'[d] = DODGER_WAIT_INPUT]_vars

\* A Shooter has restarted and waits for the Dodger in round 1 of its second
\* game.
C15_Witness ==
  /\ session[Sh] = 2 /\ shooterState[Sh] = SHOOTER_WAIT_DODGER
  /\ roundNumber[Sh] = 1 /\ dodgerChoice[Sh] = 0 /\ ~dodgerInputReceived[Sh]

\* C16: resetGame runs only in a step that starts in the game-over state of
\* the device.
C16_ResetOnlyInGameOver ==
  [][\A d \in Devices : ResetRuns(d) => InGameOver(d)]_vars

\* A Dodger has restarted and has chosen a barrel in its second game.
C16_Witness ==
  session[Dg] = 2 /\ dodgerState[Dg] = DODGER_WAIT_SHOT

\* C17: in every game-over state, resetGame applied twice leaves the globals
\* it assigns exactly as resetGame applied once does.
C17_ResetIdempotent ==
  \A d \in Devices :
    InGameOver(d) =>
      resetGameValues(resetGameValues(Globals(d))) = resetGameValues(Globals(d))

\* A game-over state after a hit in a later round, with a message latched:
\* resetGame changes every global it assigns.
C17_Witness ==
  \E d \in Devices :
    /\ InGameOver(d) /\ gameOver[d] /\ roundNumber[d] > 1
    /\ dodgerInputReceived[d] \/ notificationReceived[d]
    /\ \A f \in {"roundNumber", "gameOver", "dodgerChoice"} :
         resetGameValues(Globals(d))[f] # Globals(d)[f]

\* C18: no step changes deviceRole, and only the state machine of the role
\* moves: on a Dodger shooterState keeps its initial value, on a Shooter
\* dodgerState keeps its initial value.
C18_RoleFixed ==
  [][\A d \in Devices :
       /\ deviceRole'[d] = deviceRole[d]
       /\ deviceRole[d] = ROLE_DODGER =>
            shooterState[d] = SHOOTER_WAIT_DODGER /\ shooterState'[d] = shooterState[d]
       /\ deviceRole[d] = ROLE_SHOOTER =>
            dodgerState[d] = DODGER_WAIT_INPUT /\ dodgerState'[d] = dodgerState[d]]_vars

\* A Dodger shows a result in its second game: its own state machine has
\* moved through a game, a restart and a delivery.
C18_Witness ==
  /\ deviceRole[Dg] = ROLE_DODGER /\ session[Dg] = 2
  /\ dodgerState[Dg] = DODGER_SHOW_RESULT /\ shooterState[Dg] = SHOOTER_WAIT_DODGER

\* C19: a device that accepts a tap on a barrel button while its channel is
\* unavailable (Shooter: deviceConnected false; Dodger: no remote
\* characteristic) sends nothing and makes the transition it makes when
\* connected: the Shooter records the barrel, evaluates the round and enters
\* SHOOTER_SHOW_RESULT, the Dodger records the barrel and enters
\* DODGER_WAIT_SHOT.
C19_ProceedsWithoutChannel ==
  [][\A d \in Devices : \A t \in Touches :
       ~OnNoButton(t) =>
         /\ (~deviceConnected[d] /\ ShooterWaitInput(d, t, TRUE)) =>
              /\ notifies' = notifies
              /\ shooterChoice'[d] = SelectBarrel(t, 0)
              /\ shooterState'[d] = SHOOTER_SHOW_RESULT
              /\ roundResultSafe'[d] = CompareSafe(SelectBarrel(t, 0), dodgerChoice[d])
              /\ gameOver'[d] = (gameOver[d] \/ ~roundResultSafe'[d])
         /\ (~pRemoteCharacteristic[d] /\ DodgerWaitInput(d, t, TRUE)) =>
              /\ writes' = writes
              /\ dodgerChoice'[d] = SelectBarrel(t, 0)
              /\ dodgerState'[d] = DODGER_WAIT_SHOT]_vars

\* A Dodger without a remote characteristic has chosen its barrel.
C19_Witness ==
  /\ deviceRole[Dg] = ROLE_DODGER /\ ~pRemoteCharacteristic[Dg]
  /\ dodgerState[Dg] = DODGER_WAIT_SHOT /\ dodgerChoice[Dg] \in Positions

\* C20: for every barrel p in 1..3 the message that encodes p decodes to p
\* at its delivery, in the Dodger's write to the Shooter and in the Shooter's
\* notification to the Dodger.
C20_WireRoundTrip ==
  [][\A p \in Positions :
       /\ (DeliverWrite /\ Head(writes) = sprintf(p)) => dodgerChoice'[Sh] = p
       /\ (DeliverNotify /\ Head(notifies) = sprintf(p)) =>
            receivedShooterChoice'[Dg] = p]_vars

\* C21: what the Shooter's screen shows in SHOOTER_WAIT_INPUT does not depend
\* on the barrel the Dodger sent: a delivery, whatever barrel it carries,
\* leaves the screen as it is; the step into SHOOTER_WAIT_INPUT changes the
\* instruction line only, to a fixed text; and the screen stays the same for
\* as long as the Shooter is in SHOOTER_WAIT_INPUT.
C21_ShooterViewHidesDodger ==
  [][\A d \in Devices :
       deviceRole[d] = ROLE_SHOOTER =>
         /\ CallbackRuns(d) => drawGameScreen(d)' = drawGameScreen(d)
         /\ (shooterState[d] = SHOOTER_WAIT_DODGER /\ shooterState'[d] = SHOOTER_WAIT_INPUT) =>
              drawGameScreen(d)' =
                [drawGameScreen(d) EXCEPT !.text = "Select barrel to shoot"]
         /\ (shooterState[d] = SHOOTER_WAIT_INPUT /\ shooterState'[d] = SHOOTER_WAIT_INPUT) =>
              drawGameScreen(d)' = drawGameScreen(d)]_vars

\* The Shooter is asked for its barrel in a later round, holding barrel 3 of
\* the Dodger.
C21_Witness ==
  /\ deviceRole[Sh] = ROLE_SHOOTER /\ shooterState[Sh] = SHOOTER_WAIT_INPUT
  /\ dodgerChoice[Sh] = 3 /\ roundNumber[Sh] > 1

\* Device d is in a state of its role in which loop() does not read the
\* barrel buttons and the game is not over.
NotOwnChoice(d) ==
  \/ deviceRole[d] = ROLE_DODGER /\ dodgerState[d] \in {DODGER_WAIT_SHOT, DODGER_SHOW_RESULT}
  \/ deviceRole[d] = ROLE_SHOOTER /\ shooterState[d] \in {SHOOTER_WAIT_DODGER, SHOOTER_SHOW_RESULT}

\* C22: while a device is not in its own-choice state no step, whatever is
\* tapped, changes the barrel the device has recorded as its own or sends a
\* message, and the device leaves the state only as it does with no tap: a
\* waiting state by consuming a latched message, SHOW_RESULT to the next round
\* or to game over.
C22_SelectionIgnoredElsewhere ==
  [][\A d \in Devices :
       NotOwnChoice(d) =>
         /\ deviceRole[d] = ROLE_DODGER =>
              /\ dodgerChoice'[d] = dodgerChoice[d]
              /\ Len(writes') <= Len(writes)
              /\ dodgerState'[d] # dodgerState[d] =>
                   \/ dodgerState[d] = DODGER_WAIT_SHOT /\ notificationReceived[d]
                          /\ dodgerState'[d] = DODGER_SHOW_RESULT
                   \/ dodgerState[d] = DODGER_SHOW_RESULT
                          /\ dodgerState'[d] \in {DODGER_WAIT_INPUT, DODGER_GAME_OVER}
         /\ deviceRole[d] = ROLE_SHOOTER =>
              /\ shooterChoice'[d] = shooterChoice[d]
              /\ Len(notifies') <= Len(notifies)
              /\ shooterState'[d] # shooterState[d] =>
                   \/ shooterState[d] = SHOOTER_WAIT_DODGER /\ dodgerInputReceived[d]
                          /\ shooterState'[d] = SHOOTER_WAIT_INPUT
                   \/ shooterState[d] = SHOOTER_SHOW_RESULT
                          /\ shooterState'[d] \in {SHOOTER_WAIT_DODGER, SHOOTER_GAME_OVER}]_vars

\* A Dodger waits for the shot in a later round with its barrel recorded and
\* nothing latched: a pass of loop() there, with or without a tap, is a
\* step that changes nothing.
C22_Witness ==
  /\ deviceRole[Dg] = ROLE_DODGER /\ dodgerState[Dg] = DODGER_WAIT_SHOT
  /\ roundNumber[Dg] > 1 /\ dodgerChoice[Dg] = 1 /\ ~notificationReceived[Dg]

\* C23: in the game-over state every step that is not an accepted restart (a
\* tap elsewhere, a tap within the debounce time, a delivery, a pass of
\* loop() with no tap) leaves the state of the role, roundNumber, gameOver and
\* the verdict shown as they are.
C23_GameOverFrame ==
  [][\A d \in Devices :
       InGameOver(d) /\ ~RestartAccepted(d) =>
         /\ shooterState'[d] = shooterState[d]
         /\ dodgerState'[d] = dodgerState[d]
         /\ roundNumber'[d] = roundNumber[d]
         /\ gameOver'[d] = gameOver[d]
         /\ Verdict(d)' = Verdict(d)]_vars

\* A Shooter in game over to which a write was delivered after the game had
\* ended.
C23_Witness ==
  /\ deviceRole[Sh] = ROLE_SHOOTER /\ shooterState[Sh] = SHOOTER_GAME_OVER
  /\ dodgerInputReceived[Sh] /\ dodgerChoice[Sh] \notin Positions

\* C24: a device sends at most one message in a round, and a message is sent
\* only in the step in which its sender accepts its own barrel and leaves its
\* own-choice state (the Dodger from DODGER_WAIT_INPUT to DODGER_WAIT_SHOT, the
\* Shooter from SHOOTER_WAIT_INPUT to SHOOTER_SHOW_RESULT); the message is the
\* text of that barrel.
C24_OneMessagePerRound ==
  [][/\ \A d \in Devices : sent'[d] <= 1
     /\ Len(writes') > Len(writes) =>
          /\ writes' = Append(writes, sprintf(dodgerChoice'[Dg]))
          /\ dodgerState[Dg] = DODGER_WAIT_INPUT
          /\ dodgerState'[Dg] = DODGER_WAIT_SHOT
     /\ Len(notifies') > Len(notifies) =>
          /\ notifies' = Append(notifies, sprintf(shooterChoice'[Sh]))
          /\ shooterState[Sh] = SHOOTER_WAIT_INPUT
          /\ shooterState'[Sh] = SHOOTER_SHOW_RESULT
     /\ \A d \in Devices :
          sent'[d] # sent[d] =>
            \/ sent'[d] = 0
            \/ d = Dg /\ Len(writes') > Len(writes)
            \/ d = Sh /\ Len(notifies') > Len(notifies)]_vars

\* A device has sent its message of the second round.
C24_Witness ==
  \E d \in Devices : sent[d] = 1 /\ roundNumber[d] = 2 /\ InShowResult(d)

\* C25: an arrived flag goes from set to clear only in the step of loop() that
\* consumes the delivery: dodgerInputReceived when the Shooter leaves
\* SHOOTER_WAIT_DODGER with the barrel delivered, notificationReceived when
\* the Dodger resolves its round in DODGER_WAIT_SHOT.  No step clears a flag
\* and drops the payload that was delivered with it.
C25_LatchClearedOnlyWhenConsumed ==
  [][\A d \in Devices :
       /\ (dodgerInputReceived[d] /\ ~dodgerInputReceived'[d]) =>
            /\ shooterState[d] = SHOOTER_WAIT_DODGER
            /\ shooterState'[d] = SHOOTER_WAIT_INPUT
            /\ dodgerChoice'[d] = dodgerChoice[d]
       /\ (notificationReceived[d] /\ ~notificationReceived'[d]) =>
            /\ DodgerResolves(d)
            /\ receivedShooterChoice'[d] = receivedShooterChoice[d]]_vars

\* Device d waits for its opponent and no message is latched.
AwaitsUnlatched(d) ==
  \/ deviceRole[d] = ROLE_SHOOTER /\ shooterState[d] = SHOOTER_WAIT_DODGER
        /\ ~dodgerInputReceived[d]
  \/ deviceRole[d] = ROLE_DODGER /\ dodgerState[d] = DODGER_WAIT_SHOT
        /\ ~notificationReceived[d]

\* C26: a device leaves SHOOTER_WAIT_DODGER or DODGER_WAIT_SHOT only by
\* consuming a latched message; while it waits with nothing latched, every
\* step that is not a delivery to it leaves its state and all its game
\* variables as they are, for any number of passes of loop().
C26_NoTimeout ==
  [][\A d \in Devices :
       /\ (shooterState[d] = SHOOTER_WAIT_DODGER /\ shooterState'[d] # SHOOTER_WAIT_DODGER) =>
            dodgerInputReceived[d] /\ shooterState'[d] = SHOOTER_WAIT_INPUT
       /\ (dodgerState[d] = DODGER_WAIT_SHOT /\ dodgerState'[d] # DODGER_WAIT_SHOT) =>
            notificationReceived[d] /\ dodgerState'[d] = DODGER_SHOW_RESULT
       /\ (AwaitsUnlatched(d) /\ ~CallbackRuns(d)) =>
            /\ Globals(d)' = Globals(d)
            /\ shooterState'[d] = shooterState[d]
            /\ dodgerState'[d] = dodgerState[d]]_vars

\* A Shooter with no central connected waits for the Dodger in its third
\* round with nothing latched.
C26_Witness ==
  /\ deviceRole[Sh] = ROLE_SHOOTER /\ ~deviceConnected[Sh]
  /\ shooterState[Sh] = SHOOTER_WAIT_DODGER /\ ~dodgerInputReceived[Sh]
  /\ roundNumber[Sh] = 3

\* C27: on a connected link that delivers every message once and in order,
\* whenever the Dodger is in DODGER_WAIT_SHOT its barrel is in flight, latched
\* on the Shooter, being answered (the Shooter is in SHOOTER_WAIT_INPUT) or
\* answered (a notification is in flight or latched); so the two devices never
\* both wait for the other with nothing in flight, restarts included.
C27_NoLostHandOff ==
  dodgerState[Dg] = DODGER_WAIT_SHOT =>
    \/ writes # <<>>
    \/ dodgerInputReceived[Sh]
    \/ shooterState[Sh] = SHOOTER_WAIT_INPUT
    \/ notifies # <<>>
    \/ notificationReceived[Dg]

\* C29: on a connected link that delivers every message once and in order,
\* roundNumber is the same on both devices whenever the Shooter is in
\* SHOOTER_WAIT_INPUT and in every step in which a device resolves a round.
C29_RoundCountersInStep ==
  [][/\ shooterState[Sh] = SHOOTER_WAIT_INPUT => roundNumber[Sh] = roundNumber[Dg]
     /\ (ShooterResolves(Sh) \/ DodgerResolves(Dg)) =>
          roundNumber[Sh] = roundNumber[Dg]]_vars

\* C30: on a connected link that delivers every message once and in order, no
\* write is delivered to the Shooter while it is in SHOOTER_WAIT_INPUT, and no
\* notification is delivered to the Dodger in a state other than
\* DODGER_WAIT_SHOT.
C30_NoDeliveryDuringResolution ==
  [][/\ DeliverWrite => shooterState[Sh] # SHOOTER_WAIT_INPUT
     /\ DeliverNotify => dodgerState[Dg] = DODGER_WAIT_SHOT]_vars

\* The Dodger holds a delivered notification in DODGER_WAIT_SHOT in the second
\* round of a restarted game, while the Shooter has moved on.
C30_Witness ==
  /\ deviceRole[Sh] = ROLE_SHOOTER
  /\ deviceRole[Dg] = ROLE_DODGER
  /\ dodgerState[Dg] = DODGER_WAIT_SHOT
  /\ notificationReceived[Dg]
  /\ notifies = <<>>
  /\ roundNumber[Dg] = 2
  /\ session[Dg] = 2
  /\ shooterState[Sh] # SHOOTER_WAIT_INPUT

\* C28: on the reliable ordered link, with fair loops and players who select
\* in the end, every session that has started on both devices reaches the
\* game-over state on each of them, in round MAX_ROUNDS at the latest.
C28_SessionReachesGameOver ==
  \A s \in 1..MaxSessions : \A d \in Devices :
    (session[Sh] = s /\ session[Dg] = s)
      ~> (InGameOver(d) /\ session[d] = s /\ roundNumber[d] <= MAX_ROUNDS)
====
